---------------------------- MODULE Spec2Model ----------------------------
(***************************************************************************)
(* The internal command channel of lightbus: InternalProducer.send puts    *)
(* (command, on_done) pairs on a shared asyncio queue, InternalConsumer    *)
(* picks them up in its consumer loop and runs one background task per     *)
(* command.  Everything runs on one asyncio event loop: `ready` is the     *)
(* loop's FIFO of scheduled callbacks, and one RunNext step runs the       *)
(* callback at its head up to its next suspension point.                   *)
(* On top of the channel: the queue monitor of InternalProducer, and       *)
(* EventClient, which fires events and registers listeners through it.    *)
(***************************************************************************)
EXTENDS Naturals, Sequences, FiniteSets

\* Number of listen() and _on_message() calls in a run, together.
MaxClientCalls == 2
\* Number of commands sent in a run of the consumer or of the EventClient.
MaxCmds == 3
\* Number of InternalConsumer.start() calls in a run.
MaxStarts == 2
\* Drain polls of stop(); the source polls 100 times (consumer.py:46).
DrainPolls == 2
\* Number of InternalConsumer.stop() calls in a run.
MaxStops == 2
\* Number of send() and InternalConsumer.stop() calls in a run, together.
MaxCalls == 4
\* Number of EventClient.listen() calls in a run.
MaxListens == 2
\* Number of EventClient.fire_event() calls in a run.
MaxFires == 1
\* Number of event messages in a run.
MaxMsgs == 2
\* Number of ReceiveEvent commands handled in a run.
MaxReceives == 2
\* Number of InternalProducer.start() calls in a run.
MaxMonitors == 2
\* Number of InternalProducer.stop() calls in a run.
MaxMonitorStops == 2
\* Number of commands sent in a run in which the queue monitor samples the
\* queue: enough for a sample above size_warning, a pick-up by the consumer
\* and a sample at size_warning.
MaxSends == 11
\* Number of callers of InternalProducer.wait_until_ready().
MaxWaiters == 2

\* InternalProducer.size_warning
size_warning == 5

Cmd == 1..MaxSends
Gen == 1..MaxStarts
StopCall == 1..MaxStops
ListenCall == 1..MaxListens
FireCall == 1..MaxFires
Msg == 1..MaxMsgs
Monitor == 1..MaxMonitors
Waiter == 1..MaxWaiters
ProducerStopCall == 1..MaxMonitorStops
\* The Event objects _monitor_ready has been: stop() makes a new one.
EventObject == 1..(MaxMonitorStops + 1)

VARIABLES
    queue,            \* asyncio.Queue shared by producer and consumer: commands in FIFO order
    unfinished_tasks, \* the queue's count of items put and not yet task_done()
    getters,          \* consumer loops suspended in queue.get(), oldest first
    nsent,            \* commands sent so far; command ids are 1..nsent in send order
    kind,             \* what the handler does with a command: "ok", "err", "hang"
    on_done,          \* on_done[c]: the completion event of command c is set
    set_calls,        \* number of on_done.set() calls made for c
    task_state,       \* background task of c: unsent/queued/created/suspended/done/closed
    outcome,          \* how the task of c terminated: none/ok/err/cancelled
    must_cancel,      \* task.cancel() has been called on the task of c
    handler_started,  \* history: the handler of c has begun to execute
    running_commands, \* InternalConsumer._running_commands
    consumer_task,    \* InternalConsumer._consumer_task: 0 is None, else the loop's number
    nstarts,          \* start() calls so far
    loop_state,       \* consumer loop g: unused/new/blocked/woken/interrupted/dead
    loop_cancel,      \* task.cancel() has been called on consumer loop g
    consumer_ready,   \* InternalConsumer._ready is set
    error_queue,      \* the shared error channel: commands whose failure was queued
    callback_errors,  \* commands whose when_task_finished raised KeyError
    stop_pc,          \* stop() call s: unused/await_loop/sleep/await_task/returned
    polls,            \* polls[s]: polls of the drain loop of s that slept so far
    pending,          \* pending[s]: tasks handed to cancel() by s and not yet reached
    awaiting,         \* <<s, handle>>: the task the cancel() of s awaits, oldest wait first
    snap,             \* history: tasks in _running_commands when a drain window elapsed
    queue_at_stop,    \* history: queue_at_stop[s] is the queue when stop() call s began
    ready,            \* the event loop's FIFO of scheduled callbacks
    \* EventClient
    command,          \* command[c]: the command sent as c, <<"none">> for a bare one
    event_listeners,  \* EventClient._event_listeners: a set of listener names
    nlisten,          \* listen() calls so far
    listen_pc,        \* listen() call i: unused/waiting/returned or the error raised
    listen_name,      \* listener_name of listen() call i
    listen_cmd,       \* the ConsumeEvents command of listen() call i (0: none)
    intake,           \* intake[i]: the asyncio.Queue created by listen() call i
    nfire,            \* fire_event() calls so far
    fire_pc,          \* fire_event() call j: unused, the await it is suspended in
                      \* (lazy_load_now/before_event_sent/waiting/after_event_sent),
                      \* returned, or the error raised
    fire_kwargs,      \* names of the keyword arguments of fire_event() call j
    fire_params,      \* declared parameter names of the event call j looked up
    fire_cmd,         \* the SendEvent command of fire_event() call j (0: none)
    nmsg,             \* _on_message() calls so far; call m processes message m
    msg_pc,           \* _on_message() call m: unused, the await it is suspended in
                      \* (before_event_execution/callable/waiting/
                      \* after_event_execution), returned, raised or ValidationError
    msg_cmd,          \* the AcknowledgeEvent command of _on_message() call m (0: none)
    msg_listener,     \* the listen() call whose callable _on_message() call m runs
    client_log,       \* history: hooks run, user callables run and commands sent
    receive_log,      \* history: the ReceiveEvent commands handled and how they ended
    \* InternalProducer
    queue_monitor_task, \* InternalProducer._queue_monitor_task: 0 is None
    nmonitors,        \* InternalProducer.start() calls so far
    monitor_state,    \* monitor task g: unused/new/sleeping/dead
    monitor_cancel,   \* task.cancel() has been called on monitor task g
    previous_size,    \* previous_size of monitor g: <<>> is None, else <<n>>
    last_sample,      \* the latest sample taken: <<g, previous_size, current_size, message>>
    monitor_ready,    \* InternalProducer._monitor_ready: which Event object it is
    event_set,        \* event_set[e]: Event object e is set
    pstop_pc,         \* InternalProducer.stop() call s: unused/await_monitor/returned
    pstop_task,       \* the monitor task stop() call s is awaiting (0: none)
    npstops,          \* InternalProducer.stop() calls so far
    waiter_pc,        \* wait_until_ready() caller w: unused/suspended/returned
    waiter_event,     \* the Event object caller w waits on (0: none)
    started_since     \* history: a monitor loop started while caller w was waiting

vars == <<queue, unfinished_tasks, getters, nsent, kind, on_done, set_calls,
          task_state, outcome, must_cancel, handler_started, running_commands,
          consumer_task,
          nstarts, loop_state, loop_cancel, consumer_ready, error_queue,
          callback_errors, stop_pc, polls, pending, awaiting, snap,
          queue_at_stop, ready,
          command, event_listeners, nlisten, listen_pc, listen_name, listen_cmd,
          intake, nfire, fire_pc, fire_kwargs, fire_params, fire_cmd, nmsg,
          msg_pc, msg_cmd, msg_listener, client_log, receive_log,
          queue_monitor_task, nmonitors, monitor_state, monitor_cancel,
          previous_size, last_sample, monitor_ready, event_set,
          pstop_pc, pstop_task, npstops, waiter_pc, waiter_event, started_since>>

\* The variables of the consumer object and its loops.
consumerVars == <<running_commands, consumer_task, nstarts, loop_state,
                  loop_cancel, consumer_ready>>
\* The variables of the stop() coroutine.
stopVars == <<stop_pc, polls, pending, awaiting, snap, queue_at_stop>>
\* The variables of the background tasks.
taskVars == <<task_state, outcome, must_cancel, handler_started>>
\* The variables of the listen() calls of the EventClient.
listenVars == <<event_listeners, nlisten, listen_pc, listen_name, listen_cmd,
                intake>>
\* The variables of the fire_event() calls of the EventClient.
fireVars == <<nfire, fire_pc, fire_kwargs, fire_params, fire_cmd>>
\* The variables of the _on_message() calls of the EventClient.
messageVars == <<nmsg, msg_pc, msg_cmd, msg_listener>>
\* The variables of the EventClient.
clientVars == <<command, listenVars, fireVars, messageVars, client_log,
                receive_log>>
\* The variables of the monitor tasks of the InternalProducer.
monitorTaskVars == <<queue_monitor_task, nmonitors, monitor_state,
                     monitor_cancel, previous_size, last_sample>>
\* The variables of InternalProducer.stop() and wait_until_ready().
readyVars == <<monitor_ready, event_set, pstop_pc, pstop_task, npstops,
               waiter_pc, waiter_event, started_since>>
\* The variables of the InternalProducer other than the shared queue.
producerVars == <<monitorTaskVars, readyVars>>
\* The variables of the command channel: queue, consumer, tasks, event loop.
channelVars == <<queue, unfinished_tasks, getters, nsent, kind, on_done,
                 set_calls, taskVars, consumerVars, error_queue,
                 callback_errors, stopVars, ready>>

----------------------------------------------------------------------------
\* Helpers

InReady(h) == \E i \in DOMAIN ready : ready[i] = h

Remove(s, x) == SelectSeq(s, LAMBDA y : y # x)

LoopHandle(g) == <<"loop", g>>
TaskHandle(c) == <<"task", c>>
DoneHandle(c) == <<"done_cb", c>>
StopHandle(s) == <<"stop", s>>

\* task.done()
TaskDone(c) == task_state[c] \in {"done", "closed"}

\* The wake-ups of the stop() calls whose cancel() awaits the task with
\* handle h, in the order they began to wait (a task's done callbacks run
\* in the order they were added).
Wakers(h) ==
    LET waits == SelectSeq(awaiting, LAMBDA e : e[2] = h)
    IN  [i \in DOMAIN waits |-> StopHandle(waits[i][1])]

\* The stop() calls made so far are 1..StopCalls.
StopCalls == Cardinality({s \in StopCall : stop_pc[s] # "unused"})

\* A stop() call has begun and not returned.
StopRunning ==
    \E s \in StopCall : stop_pc[s] \in {"await_loop", "sleep", "await_task"}

\* The waits of cancel() without that of stop() call s.
Resumed(s) == SelectSeq(awaiting, LAMBDA e : e[1] # s)

\* EventClient.__init__: no listener is registered.
ClientInit ==
    /\ command = [c \in Cmd |-> <<"none">>]
    /\ event_listeners = {}
    /\ nlisten = 0
    /\ listen_pc = [i \in ListenCall |-> "unused"]
    /\ listen_name = [i \in ListenCall |-> "none"]
    /\ listen_cmd = [i \in ListenCall |-> 0]
    /\ intake = [i \in ListenCall |-> <<>>]
    /\ nfire = 0
    /\ fire_pc = [j \in FireCall |-> "unused"]
    /\ fire_kwargs = [j \in FireCall |-> {}]
    /\ fire_params = [j \in FireCall |-> {}]
    /\ fire_cmd = [j \in FireCall |-> 0]
    /\ nmsg = 0
    /\ msg_pc = [m \in Msg |-> "unused"]
    /\ msg_cmd = [m \in Msg |-> 0]
    /\ msg_listener = [m \in Msg |-> 0]
    /\ client_log = <<>>
    /\ receive_log = <<>>

\* InternalProducer.__init__: no monitor task, a fresh _monitor_ready.
ProducerInit ==
    /\ queue_monitor_task = 0
    /\ nmonitors = 0
    /\ monitor_state = [g \in Monitor |-> "unused"]
    /\ monitor_cancel = [g \in Monitor |-> FALSE]
    /\ previous_size = [g \in Monitor |-> <<>>]
    /\ last_sample = <<>>
    /\ monitor_ready = 1
    /\ event_set = [e \in EventObject |-> FALSE]
    /\ pstop_pc = [s \in ProducerStopCall |-> "unused"]
    /\ pstop_task = [s \in ProducerStopCall |-> 0]
    /\ npstops = 0
    /\ waiter_pc = [w \in Waiter |-> "unused"]
    /\ waiter_event = [w \in Waiter |-> 0]
    /\ started_since = [w \in Waiter |-> FALSE]

Init ==
    /\ queue = <<>>
    /\ unfinished_tasks = 0
    /\ getters = <<>>
    /\ nsent = 0
    /\ kind = [c \in Cmd |-> "none"]
    /\ on_done = [c \in Cmd |-> FALSE]
    /\ set_calls = [c \in Cmd |-> 0]
    /\ task_state = [c \in Cmd |-> "unsent"]
    /\ outcome = [c \in Cmd |-> "none"]
    /\ must_cancel = [c \in Cmd |-> FALSE]
    /\ handler_started = [c \in Cmd |-> FALSE]
    /\ running_commands = {}
    /\ consumer_task = 0
    /\ nstarts = 0
    /\ loop_state = [g \in Gen |-> "unused"]
    /\ loop_cancel = [g \in Gen |-> FALSE]
    /\ consumer_ready = FALSE
    /\ error_queue = <<>>
    /\ callback_errors = {}
    /\ stop_pc = [s \in StopCall |-> "unused"]
    /\ polls = [s \in StopCall |-> 0]
    /\ pending = [s \in StopCall |-> {}]
    /\ awaiting = <<>>
    /\ snap = {}
    /\ queue_at_stop = [s \in StopCall |-> <<>>]
    /\ ready = <<>>
    /\ ClientInit
    /\ ProducerInit


----------------------------------------------------------------------------
\* InternalProducer.send: put_nowait((command, event)) and return the event.
\* put_nowait wakes the oldest consumer loop suspended in queue.get().

send(k) ==
    /\ nsent < MaxSends
    /\ LET c == nsent + 1 IN
        /\ nsent' = c
        /\ kind' = [kind EXCEPT ![c] = k]
        /\ task_state' = [task_state EXCEPT ![c] = "queued"]
        /\ queue' = Append(queue, c)
        /\ unfinished_tasks' = unfinished_tasks + 1
        /\ IF getters # <<>>
           THEN /\ getters' = Tail(getters)
                /\ loop_state' = [loop_state EXCEPT ![Head(getters)] = "woken"]
                /\ ready' = Append(ready, LoopHandle(Head(getters)))
           ELSE UNCHANGED <<getters, loop_state, ready>>
    /\ UNCHANGED <<on_done, set_calls, outcome, must_cancel, handler_started,
                   running_commands, consumer_task, nstarts, loop_cancel,
                   consumer_ready, error_queue, callback_errors, stopVars>>

Send ==
    /\ nsent < MaxCmds
    /\ nsent + StopCalls < MaxCalls
    /\ \E k \in {"ok", "err", "hang"} : send(k)
    /\ UNCHANGED <<clientVars, producerVars>>

----------------------------------------------------------------------------
\* InternalConsumer.start: schedule a new consumer loop, remember it as
\* _consumer_task and replace _running_commands by an empty set.  A loop
\* that is already running is neither cancelled nor remembered, and start()
\* does not look at a stop() that is suspended.

start ==
    /\ nstarts < MaxStarts
    /\ nstarts' = nstarts + 1
    /\ loop_state' = [loop_state EXCEPT ![nstarts + 1] = "new"]
    /\ ready' = Append(ready, LoopHandle(nstarts + 1))
    /\ consumer_task' = nstarts + 1
    /\ running_commands' = {}
    /\ UNCHANGED <<queue, unfinished_tasks, getters, nsent, kind, on_done,
                   set_calls, taskVars, loop_cancel, consumer_ready,
                   error_queue, callback_errors, stopVars>>
    /\ UNCHANGED <<clientVars, producerVars>>

----------------------------------------------------------------------------
\* InternalConsumer.handle_in_background, for every command of `items`
\* in order: create the background task (its first step is scheduled),
\* add it to _running_commands, register the done callbacks.

TaskHandles(items) == [i \in DOMAIN items |-> TaskHandle(items[i])]

Range(s) == {s[i] : i \in DOMAIN s}

\* Mutant: the completion events are set when the tasks are created.
handle_in_background_sets_signal(items, rdy) ==
    /\ task_state' = [c \in Cmd |->
                        IF c \in Range(items) THEN "created" ELSE task_state[c]]
    /\ running_commands' = running_commands \cup Range(items)
    /\ ready' = rdy \o TaskHandles(items)
    /\ on_done' = [c \in Cmd |-> on_done[c] \/ c \in Range(items)]
    /\ set_calls' = [c \in Cmd |->
                        IF c \in Range(items) THEN set_calls[c] + 1
                        ELSE set_calls[c]]
    /\ UNCHANGED unfinished_tasks

handle_in_background(items, rdy) ==
    /\ task_state' = [c \in Cmd |->
                        IF c \in Range(items) THEN "created" ELSE task_state[c]]
    /\ running_commands' = running_commands \cup Range(items)
    /\ ready' = rdy \o TaskHandles(items)
    /\ UNCHANGED <<on_done, set_calls, unfinished_tasks>>

\* InternalConsumer._consumer_loop, one step of loop g: on its first step
\* set _ready; then take every queued command (queue.get() does not suspend
\* while the queue is not empty) and hand each to handle_in_background;
\* suspend in queue.get() once the queue is empty.

\* Mutant: the loop takes one command, and only while no handler is running.
consumer_loop_awaits_handler(g) ==
    /\ consumer_ready' = (consumer_ready \/ loop_state[g] = "new")
    /\ IF running_commands = {} /\ queue # <<>>
       THEN /\ handle_in_background(<<Head(queue)>>, Tail(ready))
            /\ queue' = Tail(queue)
       ELSE /\ ready' = Tail(ready)
            /\ UNCHANGED <<queue, task_state, running_commands, on_done,
                           set_calls, unfinished_tasks>>
    /\ loop_state' = [loop_state EXCEPT ![g] = "blocked"]
    /\ getters' = Append(getters, g)
    /\ UNCHANGED <<nsent, kind, outcome, must_cancel, handler_started,
                   consumer_task, nstarts, loop_cancel, error_queue,
                   callback_errors, stopVars>>

consumer_loop(g) ==
    /\ consumer_ready' = (consumer_ready \/ loop_state[g] = "new")
    /\ handle_in_background(queue, Tail(ready))
    /\ queue' = <<>>
    /\ loop_state' = [loop_state EXCEPT ![g] = "blocked"]
    /\ getters' = Append(getters, g)
    /\ UNCHANGED <<nsent, kind, outcome, must_cancel, handler_started,
                   consumer_task, nstarts, loop_cancel, error_queue,
                   callback_errors, stopVars>>

\* The step of a consumer loop that has been cancelled: CancelledError is
\* raised at its suspension point (or before its first step) and the loop
\* ends without picking anything up.  queue.get() passes a wake-up it had
\* received on to the next waiting getter.  Every stop() awaiting the loop
\* is resumed.

consumer_loop_cancelled(g) ==
    /\ loop_state' = [h \in Gen |->
            IF h = g THEN "dead"
            ELSE IF /\ loop_state[g] = "woken" /\ queue # <<>>
                    /\ getters # <<>> /\ h = Head(getters)
                 THEN "woken" ELSE loop_state[h]]
    /\ LET pass == loop_state[g] = "woken" /\ queue # <<>> /\ getters # <<>>
           r1 == IF pass THEN Append(Tail(ready), LoopHandle(Head(getters)))
                 ELSE Tail(ready)
       IN  /\ getters' = IF pass THEN Tail(getters) ELSE getters
           /\ ready' = r1 \o Wakers(LoopHandle(g))
    /\ UNCHANGED <<queue, unfinished_tasks, nsent, kind, on_done, set_calls,
                   taskVars, running_commands, consumer_task, nstarts,
                   loop_cancel, consumer_ready, error_queue, callback_errors,
                   stopVars>>

RunLoop ==
    /\ ready # <<>>
    /\ Head(ready)[1] = "loop"
    /\ LET g == Head(ready)[2] IN
         IF loop_cancel[g] THEN consumer_loop_cancelled(g) ELSE consumer_loop(g)
    /\ UNCHANGED <<clientVars, producerVars>>

----------------------------------------------------------------------------
\* The background task of command c (asyncio.ensure_future(handler(command))).

\* The task terminates with outcome o: its done callbacks are scheduled, in
\* the order they were added, then the wake-ups of the cancel() calls
\* awaiting it.
task_terminates(c, o) ==
    /\ task_state' = [task_state EXCEPT ![c] = "done"]
    /\ outcome' = [outcome EXCEPT ![c] = o]
    /\ ready' = Append(Tail(ready), DoneHandle(c)) \o Wakers(TaskHandle(c))

\* One step of the task: a cancelled task ends with CancelledError (before
\* its first step the handler does not run at all); otherwise the handler
\* runs until it suspends or returns ("ok") or raises ("err").
task_step(c) ==
    /\ IF must_cancel[c]
       THEN /\ task_terminates(c, "cancelled")
            /\ UNCHANGED handler_started
       ELSE IF task_state[c] = "created"
       THEN /\ handler_started' = [handler_started EXCEPT ![c] = TRUE]
            /\ \/ /\ task_state' = [task_state EXCEPT ![c] = "suspended"]
                  /\ ready' = Tail(ready)
                  /\ UNCHANGED outcome
               \/ /\ kind[c] # "hang"
                  /\ task_terminates(c, kind[c])
       ELSE /\ task_terminates(c, kind[c])
            /\ UNCHANGED handler_started
    /\ UNCHANGED <<queue, unfinished_tasks, getters, nsent, kind, on_done,
                   set_calls, must_cancel, consumerVars, error_queue,
                   callback_errors, stopVars>>

RunTask ==
    /\ ready # <<>>
    /\ Head(ready)[1] = "task"
    /\ task_step(Head(ready)[2])
    /\ UNCHANGED <<clientVars, producerVars>>

\* What a suspended handler waits for happens: its task is scheduled again.
HandlerWake(c) ==
    /\ task_state[c] = "suspended"
    /\ kind[c] # "hang"
    /\ ~must_cancel[c]
    /\ ~InReady(TaskHandle(c))
    /\ ready' = Append(ready, TaskHandle(c))
    /\ UNCHANGED <<queue, unfinished_tasks, getters, nsent, kind, on_done,
                   set_calls, taskVars, consumerVars, error_queue,
                   callback_errors, stopVars>>
    /\ UNCHANGED <<clientVars, producerVars>>

----------------------------------------------------------------------------
\* The done callbacks of the task of c, run back to back.

\* queue_exception_checker(error_queue): the task's exception, if it raised
\* one, is put on the error queue.
queue_exception_checker(c) ==
    error_queue' = IF outcome[c] = "err" THEN Append(error_queue, c)
                   ELSE error_queue

\* when_task_finished: _running_commands.remove(fut) raises KeyError when
\* the task is not in the set, and then the rest does not run.
when_task_finished(c) ==
    IF c \in running_commands
    THEN /\ running_commands' = running_commands \ {c}
         /\ unfinished_tasks' = unfinished_tasks - 1
         /\ on_done' = [on_done EXCEPT ![c] = TRUE]
         /\ set_calls' = [set_calls EXCEPT ![c] = @ + 1]
         /\ UNCHANGED callback_errors
    ELSE /\ callback_errors' = callback_errors \cup {c}
         /\ UNCHANGED <<running_commands, unfinished_tasks, on_done, set_calls>>

\* Mutant: queue_exception_checker is not registered on the task.
done_callbacks_unchecked(c) ==
    /\ UNCHANGED error_queue
    /\ when_task_finished(c)
    /\ task_state' = [task_state EXCEPT ![c] = "closed"]
    /\ ready' = Tail(ready)
    /\ UNCHANGED <<queue, getters, nsent, kind, outcome, must_cancel,
                   handler_started, consumer_task, nstarts, loop_state,
                   loop_cancel, consumer_ready, stopVars>>

\* The done callbacks added by handle_in_background, in the order added.
done_callbacks(c) ==
    /\ queue_exception_checker(c)
    /\ when_task_finished(c)
    /\ task_state' = [task_state EXCEPT ![c] = "closed"]
    /\ ready' = Tail(ready)
    /\ UNCHANGED <<queue, getters, nsent, kind, outcome, must_cancel,
                   handler_started, consumer_task, nstarts, loop_state,
                   loop_cancel, consumer_ready, stopVars>>

RunDoneCallbacks ==
    /\ ready # <<>>
    /\ Head(ready)[1] = "done_cb"
    /\ done_callbacks(Head(ready)[2])
    /\ UNCHANGED <<clientVars, producerVars>>

----------------------------------------------------------------------------
\* InternalConsumer.stop

\* cancel(*tasks) passes a task that is done without suspending.
cancel_skips(P) == {c \in P : TaskDone(c)}

\* cancel(*tasks) of stop() call s reaches task c, which is not done:
\* task.cancel(), then await the task.  Cancelling a suspended task
\* schedules its next step.
cancel_and_await(s, c, rdy) ==
    /\ must_cancel' = [must_cancel EXCEPT ![c] = TRUE]
    /\ awaiting' = Append(Resumed(s), <<s, TaskHandle(c)>>)
    /\ ready' = IF task_state[c] = "suspended"
                   /\ ~(\E i \in DOMAIN rdy : rdy[i] = TaskHandle(c))
                THEN Append(rdy, TaskHandle(c)) ELSE rdy

\* The end of stop() call s: `await cancel(*self._running_commands)`
\* continued with the tasks P that cancel() has not reached yet, in any
\* order; when cancel() has returned, `self._running_commands = set()` and
\* stop() returns.
cancel_tasks(s, P, rdy) ==
    LET notDone == P \ cancel_skips(P) IN
    IF notDone = {}
    THEN /\ running_commands' = {}
         /\ polls' = [polls EXCEPT ![s] = 0]
         /\ stop_pc' = [stop_pc EXCEPT ![s] = "returned"]
         /\ pending' = [pending EXCEPT ![s] = {}]
         /\ awaiting' = Resumed(s)
         /\ ready' = rdy
         /\ UNCHANGED must_cancel
    ELSE \E c \in notDone :
         /\ cancel_and_await(s, c, rdy)
         /\ pending' = [pending EXCEPT ![s] = notDone \ {c}]
         /\ stop_pc' = [stop_pc EXCEPT ![s] = "await_task"]
         /\ UNCHANGED <<running_commands, polls>>

\* Mutant: the drain loop gives up one poll early.
stop_drain_short(s, n, rdy) ==
    IF n + 1 < DrainPolls /\ running_commands # {}
    THEN /\ stop_pc' = [stop_pc EXCEPT ![s] = "sleep"]
         /\ polls' = [polls EXCEPT ![s] = n + 1]
         /\ awaiting' = Resumed(s)
         /\ ready' = rdy
         /\ UNCHANGED <<pending, snap, running_commands, must_cancel>>
    ELSE /\ snap' = snap \cup running_commands
         /\ cancel_tasks(s, running_commands, rdy)

\* The drain loop of stop() call s after n sleeps: sleep once more while
\* tasks are running and polls are left, else go on to
\* cancel(*self._running_commands).
stop_drain(s, n, rdy) ==
    IF n < DrainPolls /\ running_commands # {}
    THEN /\ stop_pc' = [stop_pc EXCEPT ![s] = "sleep"]
         /\ polls' = [polls EXCEPT ![s] = n + 1]
         /\ awaiting' = Resumed(s)
         /\ ready' = rdy
         /\ UNCHANGED <<pending, snap, running_commands, must_cancel>>
    ELSE /\ snap' = snap \cup running_commands
         /\ cancel_tasks(s, running_commands, rdy)

\* The call of stop(), up to its first suspension point: cancel the consumer
\* loop and await it; with no consumer task, or one that has ended already,
\* go straight to the drain loop.  stop() may be called while an earlier
\* stop() is suspended.
stop_begin ==
    /\ StopCalls < MaxStops
    /\ nsent + StopCalls < MaxCalls
    /\ LET s == StopCalls + 1 IN
        /\ queue_at_stop' = [queue_at_stop EXCEPT ![s] = queue]
        /\ IF consumer_task # 0 /\ loop_state[consumer_task] # "dead"
           THEN /\ loop_cancel' = [loop_cancel EXCEPT ![consumer_task] = TRUE]
                /\ stop_pc' = [stop_pc EXCEPT ![s] = "await_loop"]
                /\ awaiting' = Append(awaiting, <<s, LoopHandle(consumer_task)>>)
                /\ IF loop_state[consumer_task] = "blocked"
                   THEN /\ getters' = Remove(getters, consumer_task)
                        /\ loop_state' = [loop_state EXCEPT ![consumer_task] = "interrupted"]
                        /\ ready' = Append(ready, LoopHandle(consumer_task))
                   ELSE UNCHANGED <<getters, loop_state, ready>>
                /\ UNCHANGED <<polls, pending, snap, running_commands,
                               must_cancel, consumer_task, consumer_ready>>
           ELSE /\ stop_drain(s, 0, ready)
                /\ consumer_task' = 0
                /\ consumer_ready' = (consumer_ready /\ consumer_task = 0)
                /\ UNCHANGED <<loop_cancel, getters, loop_state>>
    /\ UNCHANGED <<queue, unfinished_tasks, nsent, kind, on_done, set_calls,
                   task_state, outcome, handler_started,
                   nstarts, error_queue, callback_errors>>
    /\ UNCHANGED <<clientVars, producerVars>>

\* stop() call s resumed: after the consumer loop ended, after a sleep of
\* the drain loop, or after the task cancel() awaited has ended.
stop_resume(s) ==
    /\ IF stop_pc[s] = "await_loop"
       THEN /\ consumer_task' = 0
            /\ consumer_ready' = FALSE
            /\ stop_drain(s, 0, Tail(ready))
       ELSE IF stop_pc[s] = "sleep"
       THEN /\ stop_drain(s, polls[s], Tail(ready))
            /\ UNCHANGED <<consumer_task, consumer_ready>>
       ELSE /\ cancel_tasks(s, pending[s], Tail(ready))
            /\ UNCHANGED <<consumer_task, consumer_ready, snap>>
    /\ UNCHANGED <<queue, unfinished_tasks, getters, nsent, kind, on_done,
                   set_calls, task_state, outcome, handler_started, nstarts,
                   loop_state, loop_cancel, error_queue, callback_errors,
                   queue_at_stop>>

RunStop ==
    /\ ready # <<>>
    /\ Head(ready)[1] = "stop"
    /\ stop_resume(Head(ready)[2])
    /\ UNCHANGED <<clientVars, producerVars>>

\* asyncio.sleep(wait_seconds / 100) of the drain loop of stop() call s is
\* over.
TimerFire(s) ==
    /\ stop_pc[s] = "sleep"
    /\ ~InReady(StopHandle(s))
    /\ ready' = Append(ready, StopHandle(s))
    /\ UNCHANGED <<queue, unfinished_tasks, getters, nsent, kind, on_done,
                   set_calls, taskVars, consumerVars, error_queue,
                   callback_errors, stopVars>>
    /\ UNCHANGED <<clientVars, producerVars>>

----------------------------------------------------------------------------

Next ==
    \/ Send
    \/ start
    \/ stop_begin
    \/ RunLoop
    \/ RunTask
    \/ \E c \in Cmd : HandlerWake(c)
    \/ RunDoneCallbacks
    \/ RunStop
    \/ \E s \in StopCall : TimerFire(s)

Spec == Init /\ [][Next]_vars


\* The scenario of a caller that calls start() only while no consumer task
\* is held and no stop() is suspended; send() and stop() are called at any
\* time, stop() also while an earlier stop() is suspended.  The program
\* accepts the other calls of start() too (Next); no claim is settled here.
NextGuardedStart ==
    \/ Send
    \/ (consumer_task = 0 /\ ~StopRunning /\ start)
    \/ stop_begin
    \/ RunLoop
    \/ RunTask
    \/ \E c \in Cmd : HandlerWake(c)
    \/ RunDoneCallbacks
    \/ RunStop
    \/ \E s \in StopCall : TimerFire(s)

GuardedStartSpec == Init /\ [][NextGuardedStart]_vars

\* A consumer that is started once and not stopped, on an event loop that
\* runs every scheduled callback; what a handler that is not of kind "hang"
\* waits for eventually happens.
NextSteady ==
    \/ Send
    \/ (nstarts = 0 /\ start)
    \/ RunLoop
    \/ RunTask
    \/ \E c \in Cmd : HandlerWake(c)
    \/ RunDoneCallbacks

SteadySpec ==
    /\ Init
    /\ [][NextSteady]_vars
    /\ WF_vars(RunLoop)
    /\ WF_vars(RunTask)
    /\ WF_vars(RunDoneCallbacks)
    /\ \A c \in Cmd : WF_vars(HandlerWake(c))

\* The program of Spec on an event loop that runs every scheduled callback
\* and fires every timer; what a handler that is not of kind "hang" waits
\* for eventually happens.  start(), send() and stop() are called at any
\* time, or not at all.
RestartSpec ==
    /\ Init
    /\ [][Next]_vars
    /\ WF_vars(RunLoop)
    /\ WF_vars(RunTask)
    /\ WF_vars(RunDoneCallbacks)
    /\ WF_vars(RunStop)
    /\ \A s \in StopCall : WF_vars(TimerFire(s))
    /\ \A c \in Cmd : WF_vars(HandlerWake(c))

----------------------------------------------------------------------------
\* EventClient: commands go to the transports through the producer.

\* self.producer.send(command) and send_to_event_transports(command): the
\* command is put on the shared queue; k is what its handler will do.
send_command(cmd, k) ==
    /\ send(k)
    /\ command' = [command EXCEPT ![nsent + 1] = cmd]

\* send_to_event_transports(command), of the client's base class: the
\* command is sent through the producer.
send_to_event_transports(cmd, k) == send_command(cmd, k)

----------------------------------------------------------------------------
\* EventClient.fire_event

\* The names keyword arguments and declared parameters are drawn from.
ArgName == {"order_id", "extra"}

\* Mutant: only a missing argument is noticed.
missing_event_arguments(kwargs, parameter_names) ==
    ~(parameter_names \subseteq kwargs)

\* set(kwargs.keys()) != parameter_names
invalid_event_arguments(kwargs, parameter_names) ==
    kwargs # parameter_names

\* How the lookups and validations of fire_event() end, in the order the
\* code makes them: the API is not registered (lines 34-44), the name is
\* refused by validate_event_or_rpc_name (line 46), the API has no such
\* event (lines 48-55), the keyword arguments are not the declared
\* parameters (lines 59-68), the message is refused by validate_outgoing
\* (line 75).
fire_event_error(resolve, parameter_names, kwargs) ==
    IF resolve \in {"UnknownApi", "InvalidName", "EventNotFound"} THEN resolve
    ELSE IF invalid_event_arguments(kwargs, parameter_names)
    THEN "InvalidEventArguments"
    ELSE IF resolve = "ValidationError" THEN resolve
    ELSE "none"

\* fire_event() call j, lines 78-82: the SendEvent command is sent and the
\* call waits for the command's completion event.  k is what the handler
\* of the command will do, `log` the client log so far.
fire_event_send(j, k, log) ==
    /\ send_to_event_transports(<<"SendEvent", j>>, k)
    /\ fire_cmd' = [fire_cmd EXCEPT ![j] = nsent + 1]
    /\ fire_pc' = [fire_pc EXCEPT ![j] = "waiting"]
    /\ client_log' = Append(log, <<"send", nsent + 1>>)

\* fire_event() call j, lines 33-82: the lookups and validations, then the
\* before_event_sent hook is awaited; a hook that does not suspend lets
\* the call go on to the send.  `resolve` is how the lookups and
\* validations end, parameter_names are the declared parameters of the
\* event that was looked up (line 57), kwargs the names of the keyword
\* arguments, and `suspends` names the awaited collaborators that suspend
\* rather than return at once.
fire_event_validate(j, resolve, parameter_names, kwargs, k, suspends) ==
    /\ fire_params' = [fire_params EXCEPT ![j] = parameter_names]
    /\ IF fire_event_error(resolve, parameter_names, kwargs) # "none"
       THEN /\ fire_pc' = [fire_pc EXCEPT
                   ![j] = fire_event_error(resolve, parameter_names, kwargs)]
            /\ UNCHANGED <<fire_cmd, command, client_log, channelVars>>
       ELSE IF "before_event_sent" \in suspends
       THEN /\ fire_pc' = [fire_pc EXCEPT ![j] = "before_event_sent"]
            /\ client_log' = Append(client_log, <<"before_event_sent", j>>)
            /\ UNCHANGED <<fire_cmd, command, channelVars>>
       ELSE fire_event_send(j, k,
                            Append(client_log, <<"before_event_sent", j>>))

\* The call of fire_event(), up to its first suspension point:
\* lazy_load_now() is awaited (line 31), and when it does not suspend the
\* call goes on.
fire_event(resolve, parameter_names, kwargs, k, suspends) ==
    /\ nfire < MaxFires
    /\ LET j == nfire + 1 IN
        /\ nfire' = j
        /\ fire_kwargs' = [fire_kwargs EXCEPT ![j] = kwargs]
        /\ IF "lazy_load_now" \in suspends
           THEN /\ fire_pc' = [fire_pc EXCEPT ![j] = "lazy_load_now"]
                /\ UNCHANGED <<fire_params, fire_cmd, command, client_log,
                               channelVars>>
           ELSE fire_event_validate(j, resolve, parameter_names, kwargs, k,
                                    suspends)
    /\ UNCHANGED <<listenVars, messageVars, receive_log, producerVars>>

\* How the lookups and validations of fire_event() can end.
Resolve == {"ok", "UnknownApi", "InvalidName", "EventNotFound",
            "ValidationError"}

\* The declared parameters of the event that is looked up: no event is
\* looked up when the API is unknown, the name refused or the event not
\* found.
ParameterNames(resolve) ==
    IF resolve \in {"ok", "ValidationError"} THEN SUBSET ArgName ELSE {{}}

\* What the handler of a command can do: return, raise, or suspend and
\* not be resumed.
HandlerKind == {"ok", "err", "hang"}

FireEvent ==
    \E resolve \in Resolve :
    \E parameter_names \in ParameterNames(resolve) :
    \E kwargs \in SUBSET ArgName :
    \E k \in HandlerKind :
    \E suspends \in SUBSET {"lazy_load_now", "before_event_sent"} :
        fire_event(resolve, parameter_names, kwargs, k, suspends)

\* fire_event() call j resumed at line 31, after lazy_load_now().
fire_event_loaded(j, resolve, parameter_names, k, suspends) ==
    /\ fire_pc[j] = "lazy_load_now"
    /\ fire_event_validate(j, resolve, parameter_names, fire_kwargs[j], k,
                           suspends)
    /\ UNCHANGED <<nfire, fire_kwargs, listenVars, messageVars, receive_log,
                   producerVars>>

FireEventLoaded ==
    \E j \in FireCall : \E resolve \in Resolve :
    \E parameter_names \in ParameterNames(resolve) :
    \E k \in HandlerKind : \E suspends \in SUBSET {"before_event_sent"} :
        fire_event_loaded(j, resolve, parameter_names, k, suspends)

\* fire_event() call j resumed at line 77, after the before_event_sent hook.
fire_event_hook_returned(j, k) ==
    /\ fire_pc[j] = "before_event_sent"
    /\ fire_event_send(j, k, client_log)
    /\ UNCHANGED <<nfire, fire_kwargs, fire_params, listenVars, messageVars,
                   receive_log, producerVars>>

\* Mutant: fire_event() does not wait for the completion event.
fire_event_returns_early(j, suspends) ==
    /\ fire_pc[j] = "waiting"
    /\ fire_pc' = [fire_pc EXCEPT ![j] =
            IF "after_event_sent" \in suspends
            THEN "after_event_sent" ELSE "returned"]
    /\ client_log' = Append(client_log, <<"after_event_sent", j>>)
    /\ UNCHANGED <<nfire, fire_kwargs, fire_params, fire_cmd, command,
                   listenVars, messageVars, receive_log, channelVars,
                   producerVars>>

\* fire_event() call j resumed at line 82 by the completion event of its
\* SendEvent command: the after_event_sent hook is awaited (line 84); when
\* the hook does not suspend the call returns.
fire_event_resume(j, suspends) ==
    /\ fire_pc[j] = "waiting"
    /\ on_done[fire_cmd[j]]
    /\ fire_pc' = [fire_pc EXCEPT ![j] =
            IF "after_event_sent" \in suspends
            THEN "after_event_sent" ELSE "returned"]
    /\ client_log' = Append(client_log, <<"after_event_sent", j>>)
    /\ UNCHANGED <<nfire, fire_kwargs, fire_params, fire_cmd, command,
                   listenVars, messageVars, receive_log, channelVars,
                   producerVars>>

\* fire_event() call j resumed at line 84, after the after_event_sent
\* hook: the call returns.
fire_event_return(j) ==
    /\ fire_pc[j] = "after_event_sent"
    /\ fire_pc' = [fire_pc EXCEPT ![j] = "returned"]
    /\ UNCHANGED <<nfire, fire_kwargs, fire_params, fire_cmd, command,
                   client_log, listenVars, messageVars, receive_log,
                   channelVars, producerVars>>

\* An EventClient firing events through a consumer that is started (also
\* twice) and stopped at any time.
FireNext ==
    \/ FireEvent
    \/ FireEventLoaded
    \/ \E j \in FireCall : \E k \in HandlerKind : fire_event_hook_returned(j, k)
    \/ \E j \in FireCall : \E suspends \in SUBSET {"after_event_sent"} :
            fire_event_resume(j, suspends)
    \/ \E j \in FireCall : fire_event_return(j)
    \/ start
    \/ stop_begin
    \/ RunLoop
    \/ RunTask
    \/ \E c \in Cmd : HandlerWake(c)
    \/ RunDoneCallbacks
    \/ RunStop
    \/ \E s \in StopCall : TimerFire(s)

FireSpec == Init /\ [][FireNext]_vars

----------------------------------------------------------------------------
\* EventClient.listen

\* The listener names in use.
ListenerName == {"L1", "L2"}

\* The listeners passed to listen(): whether the object is callable,
\* whether inspect.signature() can read its signature (it cannot for
\* builtins such as int, str or max), how many positional parameters it
\* declares and whether it declares *args.
Listener ==
    {[callable |-> TRUE, signature |-> TRUE, positional |-> 1,
      var_positional |-> FALSE],
     [callable |-> TRUE, signature |-> TRUE, positional |-> 0,
      var_positional |-> TRUE],
     [callable |-> TRUE, signature |-> TRUE, positional |-> 0,
      var_positional |-> FALSE],
     [callable |-> TRUE, signature |-> FALSE, positional |-> 1,
      var_positional |-> FALSE],
     [callable |-> FALSE, signature |-> FALSE, positional |-> 0,
      var_positional |-> FALSE]}

\* sanity_check_listener(listener): an object that is not callable is
\* refused (line 175); inspect.signature(listener) raises ValueError when
\* no signature is found (line 183); then the parameters are counted.
sanity_check_listener(listener) ==
    IF ~listener.callable THEN "InvalidEventListener"
    ELSE IF ~listener.signature THEN "ValueError"
    ELSE IF listener.var_positional THEN "ok"
    ELSE IF listener.positional = 0 THEN "InvalidEventListener"
    ELSE "ok"

\* listen() up to its wait: check the listener, refuse a name that is in
\* _event_listeners, validate the event names (`names` is how
\* validate_event_or_rpc_name ends for them, line 100), create the intake
\* queue, send the ConsumeEvents command and wait for its completion event.
\* The coroutine function listener() that listen() defines (lines 104-108)
\* is not called and not scheduled, so no step of the model belongs to it.
listen(listener_name, listener, names, k) ==
    /\ nlisten < MaxListens
    /\ nlisten + nmsg < MaxClientCalls
    /\ LET i == nlisten + 1 IN
        /\ nlisten' = i
        /\ listen_name' = [listen_name EXCEPT ![i] = listener_name]
        /\ IF sanity_check_listener(listener) # "ok"
           THEN /\ listen_pc' = [listen_pc EXCEPT
                        ![i] = sanity_check_listener(listener)]
                /\ UNCHANGED <<listen_cmd, command, client_log, channelVars>>
           ELSE IF listener_name \in event_listeners
           THEN /\ listen_pc' = [listen_pc EXCEPT ![i] = "AlreadyRegistered"]
                /\ UNCHANGED <<listen_cmd, command, client_log, channelVars>>
           ELSE IF names # "ok"
           THEN /\ listen_pc' = [listen_pc EXCEPT ![i] = names]
                /\ UNCHANGED <<listen_cmd, command, client_log, channelVars>>
           ELSE /\ send_command(<<"ConsumeEvents", listener_name, i>>, k)
                /\ listen_cmd' = [listen_cmd EXCEPT ![i] = nsent + 1]
                /\ listen_pc' = [listen_pc EXCEPT ![i] = "waiting"]
                /\ client_log' = Append(client_log, <<"send", nsent + 1>>)
        /\ UNCHANGED event_listeners
    /\ UNCHANGED <<intake, fireVars, messageVars, receive_log,
                   producerVars>>

Listen ==
    \E listener_name \in ListenerName : \E listener \in Listener :
    \E names \in {"ok", "InvalidName"} :
    \E k \in {"ok", "err", "hang"} :
        listen(listener_name, listener, names, k)

\* listen() resumed by the completion event of its ConsumeEvents command:
\* the listener name is added to _event_listeners and the call returns.
listen_resume(i) ==
    /\ listen_pc[i] = "waiting"
    /\ on_done[listen_cmd[i]]
    /\ event_listeners' = event_listeners \cup {listen_name[i]}
    /\ listen_pc' = [listen_pc EXCEPT ![i] = "returned"]
    /\ UNCHANGED <<nlisten, listen_name, listen_cmd, intake, command,
                   fireVars, messageVars, client_log, receive_log,
                   channelVars, producerVars>>

\* The handler of a ConsumeEvents command holds the command's
\* destination_queue: the transport puts the messages it consumes on it.
transport_put(i, message) ==
    /\ listen_cmd[i] # 0
    /\ handler_started[listen_cmd[i]]
    /\ Len(intake[i]) < MaxMsgs
    /\ \A h \in ListenCall : \A n \in DOMAIN intake[h] : intake[h][n] # message
    /\ intake' = [intake EXCEPT ![i] = Append(@, message)]
    /\ UNCHANGED <<event_listeners, nlisten, listen_pc, listen_name,
                   listen_cmd, command, fireVars, messageVars, client_log,
                   receive_log, channelVars, producerVars>>

TransportPut == \E i \in ListenCall : \E message \in Msg : transport_put(i, message)

----------------------------------------------------------------------------
\* EventClient.handle_receive_event

\* _event_listeners is a set of names.  For a name that is not in it the
\* arguments of logger.debug are evaluated, and set has no keys():
\* AttributeError.  For a name that is in it the set is subscripted:
\* TypeError.  Neither path reaches `listener.incoming_events.put`.
handle_receive_event(listener_name, message) ==
    /\ Len(receive_log) < MaxReceives
    /\ receive_log' = Append(receive_log,
          [listener_name |-> listener_name,
           message |-> message,
           registered |-> listener_name \in event_listeners,
           result |-> IF listener_name \notin event_listeners
                      THEN "AttributeError" ELSE "TypeError"])
    /\ UNCHANGED <<command, listenVars, fireVars, messageVars, client_log,
                   channelVars, producerVars>>

HandleReceiveEvent ==
    \E listener_name \in ListenerName : \E message \in Msg :
        handle_receive_event(listener_name, message)

----------------------------------------------------------------------------
\* EventClient._on_message

\* The entry of the error queue for the failure of the user callable on
\* message m (the entries 1..MaxSends are failures of command handlers).
MessageError(m) == MaxSends + m

\* run_user_provided_callable(listener, ..., error_queue) for a callable
\* that raises: the exception is put on the error queue and ends the
\* processing of the message.
run_user_provided_callable(m) ==
    error_queue' = Append(error_queue, MessageError(m))

\* _on_message() call m, lines 149-152: the AcknowledgeEvent command is
\* sent and the call waits for the command's completion event.  `log` is
\* the client log so far.
on_message_acknowledge(m, k, log) ==
    /\ send_to_event_transports(<<"AcknowledgeEvent", m>>, k)
    /\ msg_cmd' = [msg_cmd EXCEPT ![m] = nsent + 1]
    /\ msg_pc' = [msg_pc EXCEPT ![m] = "waiting"]
    /\ client_log' = Append(log, <<"send", nsent + 1>>)

\* _on_message() call m, lines 145-152, when the user callable ends: a
\* callable that raised ends the processing of the message, else the
\* acknowledgement is sent.
on_message_callable_ends(m, behaviour, k, log) ==
    IF behaviour = "raises"
    THEN /\ run_user_provided_callable(m)
         /\ msg_pc' = [msg_pc EXCEPT ![m] = "raised"]
         /\ client_log' = log
         /\ UNCHANGED <<msg_cmd, command, queue, unfinished_tasks,
                        getters, nsent, kind, on_done, set_calls,
                        taskVars, consumerVars, callback_errors,
                        stopVars, ready>>
    ELSE on_message_acknowledge(m, k, log)

\* _on_message() call m, lines 136-152: the user callable is called and
\* awaited; a callable that does not suspend lets the call go on.
on_message_call(m, behaviour, k, suspends, log) ==
    IF "callable" \in suspends
    THEN /\ msg_pc' = [msg_pc EXCEPT ![m] = "callable"]
         /\ client_log' = Append(log, <<"callable", m>>)
         /\ UNCHANGED <<msg_cmd, command, channelVars>>
    ELSE on_message_callable_ends(m, behaviour, k,
                                  Append(log, <<"callable", m>>))

\* The call of _on_message(event_message, listener, options) with the
\* callable of listen() call i, up to its first suspension point:
\* validate_incoming (`incoming` is how it ends, line 132), the
\* before_event_execution hook, the user callable (`behaviour` is how it
\* ends), then the AcknowledgeEvent command is sent and its completion
\* event awaited.  `suspends` names the awaited collaborators (the hook and
\* the user callable) that suspend rather than return at once.  The
\* listener is an argument: _on_message() does not ask whether, or how,
\* the listen() call ended.
on_message(i, incoming, behaviour, k, suspends) ==
    /\ nmsg < MaxMsgs
    /\ nlisten + nmsg < MaxClientCalls
    /\ LET m == nmsg + 1 IN
        /\ nmsg' = m
        /\ msg_listener' = [msg_listener EXCEPT ![m] = i]
        /\ IF incoming # "ok"
           THEN /\ msg_pc' = [msg_pc EXCEPT ![m] = incoming]
                /\ UNCHANGED <<msg_cmd, command, client_log, channelVars>>
           ELSE IF "before_event_execution" \in suspends
           THEN /\ msg_pc' = [msg_pc EXCEPT ![m] = "before_event_execution"]
                /\ client_log' = Append(client_log,
                                        <<"before_event_execution", m>>)
                /\ UNCHANGED <<msg_cmd, command, channelVars>>
           ELSE on_message_call(m, behaviour, k, suspends,
                    Append(client_log, <<"before_event_execution", m>>))
    /\ UNCHANGED <<listenVars, fireVars, receive_log, producerVars>>

OnMessage ==
    \E i \in ListenCall : \E incoming \in {"ok", "ValidationError"} :
    \E behaviour \in {"returns", "raises"} :
    \E k \in HandlerKind :
    \E suspends \in SUBSET {"before_event_execution", "callable"} :
        on_message(i, incoming, behaviour, k, suspends)

\* _on_message() call m resumed at line 134, after the
\* before_event_execution hook.
on_message_hook_returned(m, behaviour, k, suspends) ==
    /\ msg_pc[m] = "before_event_execution"
    /\ on_message_call(m, behaviour, k, suspends, client_log)
    /\ UNCHANGED <<nmsg, msg_listener, listenVars, fireVars, receive_log,
                   producerVars>>

\* _on_message() call m resumed at line 145, when the user callable ends.
on_message_callable_returned(m, behaviour, k) ==
    /\ msg_pc[m] = "callable"
    /\ on_message_callable_ends(m, behaviour, k, client_log)
    /\ UNCHANGED <<nmsg, msg_listener, listenVars, fireVars, receive_log,
                   producerVars>>

\* _on_message() call m resumed at line 152 by the completion event of its
\* AcknowledgeEvent command: the after_event_execution hook is awaited
\* (line 154); when the hook does not suspend the call returns.
on_message_resume(m, suspends) ==
    /\ msg_pc[m] = "waiting"
    /\ on_done[msg_cmd[m]]
    /\ msg_pc' = [msg_pc EXCEPT ![m] =
            IF "after_event_execution" \in suspends
            THEN "after_event_execution" ELSE "returned"]
    /\ client_log' = Append(client_log, <<"after_event_execution", m>>)
    /\ UNCHANGED <<nmsg, msg_cmd, msg_listener, command, listenVars,
                   fireVars, receive_log, channelVars, producerVars>>

\* _on_message() call m resumed at line 154, after the
\* after_event_execution hook: the call returns.
on_message_return(m) ==
    /\ msg_pc[m] = "after_event_execution"
    /\ msg_pc' = [msg_pc EXCEPT ![m] = "returned"]
    /\ UNCHANGED <<nmsg, msg_cmd, msg_listener, command, client_log,
                   listenVars, fireVars, receive_log, channelVars,
                   producerVars>>

----------------------------------------------------------------------------
\* An EventClient registering listeners and handling inbound commands, with
\* a consumer that is started once and not stopped.
ListenNext ==
    \/ Listen
    \/ \E i \in ListenCall : listen_resume(i)
    \/ TransportPut
    \/ HandleReceiveEvent
    \/ (nstarts = 0 /\ start)
    \/ RunLoop
    \/ RunTask
    \/ \E c \in Cmd : HandlerWake(c)
    \/ RunDoneCallbacks

ListenSpec == Init /\ [][ListenNext]_vars

\* The wake-ups of _on_message() when the handlers of its commands return
\* normally.
OnMessageHookReturned ==
    \E m \in Msg : \E behaviour \in {"returns", "raises"} :
    \E suspends \in SUBSET {"callable"} :
        on_message_hook_returned(m, behaviour, "ok", suspends)

OnMessageCallableReturned ==
    \E m \in Msg : \E behaviour \in {"returns", "raises"} :
        on_message_callable_returned(m, behaviour, "ok")

OnMessageResume ==
    \E m \in Msg : \E suspends \in SUBSET {"after_event_execution"} :
        on_message_resume(m, suspends)

\* An EventClient whose listeners' intake queues are filled by the
\* transport and whose _on_message() is called; the handlers of its
\* commands return normally.  The event loop runs every scheduled callback
\* and resumes every coroutine whose wait is over.
DeliveryNext ==
    \/ \E listener_name \in ListenerName : \E listener \in Listener :
       \E names \in {"ok", "InvalidName"} :
            listen(listener_name, listener, names, "ok")
    \/ \E i \in ListenCall : listen_resume(i)
    \/ TransportPut
    \/ \E i \in ListenCall : \E incoming \in {"ok", "ValidationError"} :
       \E behaviour \in {"returns", "raises"} :
       \E suspends \in SUBSET {"before_event_execution", "callable"} :
            on_message(i, incoming, behaviour, "ok", suspends)
    \/ OnMessageHookReturned
    \/ OnMessageCallableReturned
    \/ OnMessageResume
    \/ \E m \in Msg : on_message_return(m)
    \/ (nstarts = 0 /\ start)
    \/ RunLoop
    \/ RunTask
    \/ \E c \in Cmd : HandlerWake(c)
    \/ RunDoneCallbacks

DeliverySpec ==
    /\ Init
    /\ [][DeliveryNext]_vars
    /\ WF_vars(RunLoop)
    /\ WF_vars(RunTask)
    /\ WF_vars(RunDoneCallbacks)
    /\ \A c \in Cmd : WF_vars(HandlerWake(c))
    /\ \A i \in ListenCall : WF_vars(listen_resume(i))
    /\ WF_vars(OnMessageHookReturned)
    /\ WF_vars(OnMessageCallableReturned)
    /\ WF_vars(OnMessageResume)
    /\ \A m \in Msg : WF_vars(on_message_return(m))

----------------------------------------------------------------------------
\* InternalProducer: the queue monitor

\* Mutant: the size warning takes precedence over the shrink notice.
monitor_message_warning_first(previous, current) ==
    LET show_size_warning ==
            current >= size_warning /\ previous # <<current>>
        queue_has_shrunk ==
            /\ previous # <<>>
            /\ current < previous[1]
            /\ previous[1] >= size_warning
    IN  IF show_size_warning THEN "size_warning"
        ELSE IF queue_has_shrunk THEN "shrunk_ok"
        ELSE "none"

\* Mutant: any decrease counts as a shrink, whatever the previous size.
monitor_message_any_shrink(previous, current) ==
    LET show_size_warning ==
            current >= size_warning /\ previous # <<current>>
        queue_has_shrunk ==
            /\ previous # <<>>
            /\ current < previous[1]
    IN  IF show_size_warning \/ queue_has_shrunk
        THEN IF queue_has_shrunk
             THEN (IF ~show_size_warning THEN "shrunk_ok" ELSE "shrunk")
             ELSE "size_warning"
        ELSE "none"

\* What one pass of the loop of _queue_monitor logs, given previous_size
\* (<<>> is None) and the queue size it sampled: "size_warning" is "Queue in
\* ... now has N commands", "shrunk" is "Queue in ... has shrunk back down to
\* N commands", "shrunk_ok" is the same with "Queue is now at an OK size
\* again", "none" is no message.
monitor_message(previous, current) ==
    LET show_size_warning ==
            current >= size_warning /\ previous # <<current>>
        queue_has_shrunk ==
            /\ previous # <<>>
            /\ current < previous[1]
            /\ previous[1] >= size_warning
    IN  IF show_size_warning \/ queue_has_shrunk
        THEN IF queue_has_shrunk
             THEN (IF ~show_size_warning THEN "shrunk_ok" ELSE "shrunk")
             ELSE "size_warning"
        ELSE "none"

\* InternalProducer.start: schedule a new monitor task and remember it.
producer_start ==
    /\ nmonitors < MaxMonitors
    /\ nmonitors' = nmonitors + 1
    /\ monitor_state' = [monitor_state EXCEPT ![nmonitors + 1] = "new"]
    /\ queue_monitor_task' = nmonitors + 1
    /\ UNCHANGED <<monitor_cancel, previous_size, last_sample, readyVars,
                   channelVars, clientVars>>

\* One step of monitor task g; tasks take their first steps in the order
\* they were scheduled.  A cancelled task ends with CancelledError (before
\* its first step its body does not run at all).  Otherwise, on the
\* first step self._monitor_ready is set, and then, as after every sleep,
\* the queue size is sampled and compared with previous_size.
queue_monitor(g) ==
    /\ monitor_state[g] \in {"new", "sleeping"}
    /\ monitor_state[g] = "new"
        => \A h \in Monitor : h < g => monitor_state[h] # "new"
    /\ IF monitor_cancel[g]
       THEN /\ monitor_state' = [monitor_state EXCEPT ![g] = "dead"]
            /\ UNCHANGED <<previous_size, last_sample, event_set,
                           started_since>>
       ELSE /\ monitor_state' = [monitor_state EXCEPT ![g] = "sleeping"]
            /\ last_sample' = <<g, previous_size[g], Len(queue),
                                monitor_message(previous_size[g], Len(queue))>>
            /\ previous_size' = [previous_size EXCEPT ![g] = <<Len(queue)>>]
            /\ IF monitor_state[g] = "new"
               THEN /\ event_set' = [event_set EXCEPT ![monitor_ready] = TRUE]
                    /\ started_since' =
                          [w \in Waiter |->
                              started_since[w] \/ waiter_pc[w] = "suspended"]
               ELSE UNCHANGED <<event_set, started_since>>
    /\ UNCHANGED <<queue_monitor_task, nmonitors, monitor_cancel,
                   monitor_ready, pstop_pc, pstop_task, npstops, waiter_pc,
                   waiter_event, channelVars, clientVars>>

QueueMonitor == \E g \in Monitor : queue_monitor(g)

\* cancel(task) of InternalProducer.stop() call s: a task that is not done
\* is cancelled and awaited.
cancel_monitor(s, g) ==
    /\ monitor_cancel' = [monitor_cancel EXCEPT ![g] = TRUE]
    /\ pstop_task' = [pstop_task EXCEPT ![s] = g]
    /\ pstop_pc' = [pstop_pc EXCEPT ![s] = "await_monitor"]

\* The call of InternalProducer.stop(), up to its suspension point: without
\* a monitor task it returns at once; with one, cancel it and await it.
\* cancel() passes a task that has ended already without suspending, and
\* then the task is forgotten and _monitor_ready replaced in the same
\* step.  stop() may be called while an earlier stop() is suspended.
producer_stop ==
    /\ npstops < MaxMonitorStops
    /\ npstops' = npstops + 1
    /\ LET s == npstops + 1 IN
        IF queue_monitor_task = 0
        THEN /\ pstop_pc' = [pstop_pc EXCEPT ![s] = "returned"]
             /\ UNCHANGED <<monitor_cancel, pstop_task, queue_monitor_task,
                            monitor_ready>>
        ELSE IF monitor_state[queue_monitor_task] = "dead"
        THEN /\ pstop_pc' = [pstop_pc EXCEPT ![s] = "returned"]
             /\ queue_monitor_task' = 0
             /\ monitor_ready' = monitor_ready + 1
             /\ UNCHANGED <<monitor_cancel, pstop_task>>
        ELSE /\ cancel_monitor(s, queue_monitor_task)
             /\ UNCHANGED <<queue_monitor_task, monitor_ready>>
    /\ UNCHANGED <<nmonitors, monitor_state,
                   previous_size, last_sample, event_set,
                   waiter_pc, waiter_event, started_since, channelVars,
                   clientVars>>

\* InternalProducer.stop() call s resumed when the cancelled monitor task
\* has ended: forget the task that is held now and replace _monitor_ready
\* by a new Event.  The calls awaiting one task are resumed in the order
\* they began to wait.
producer_stop_resume(s) ==
    /\ pstop_pc[s] = "await_monitor"
    /\ monitor_state[pstop_task[s]] = "dead"
    /\ \A t \in ProducerStopCall :
          (t < s /\ pstop_task[t] = pstop_task[s]) => pstop_pc[t] # "await_monitor"
    /\ queue_monitor_task' = 0
    /\ monitor_ready' = monitor_ready + 1
    /\ pstop_pc' = [pstop_pc EXCEPT ![s] = "returned"]
    /\ pstop_task' = [pstop_task EXCEPT ![s] = 0]
    /\ UNCHANGED <<nmonitors, monitor_state, monitor_cancel, previous_size,
                   last_sample, event_set, npstops, waiter_pc, waiter_event,
                   started_since, channelVars, clientVars>>

\* InternalProducer.wait_until_ready, called by w: wait on the Event that
\* is _monitor_ready now; no suspension when it is set already.
wait_until_ready(w) ==
    /\ waiter_pc[w] = "unused"
    /\ waiter_event' = [waiter_event EXCEPT ![w] = monitor_ready]
    /\ waiter_pc' = [waiter_pc EXCEPT ![w] =
                        IF event_set[monitor_ready] THEN "returned"
                        ELSE "suspended"]
    /\ UNCHANGED <<monitorTaskVars, monitor_ready, event_set, pstop_pc,
                   pstop_task, npstops, started_since, channelVars,
                   clientVars>>

\* The caller w is resumed: the Event it waits on has been set.
wait_until_ready_resume(w) ==
    /\ waiter_pc[w] = "suspended"
    /\ event_set[waiter_event[w]]
    /\ waiter_pc' = [waiter_pc EXCEPT ![w] = "returned"]
    /\ UNCHANGED <<monitorTaskVars, monitor_ready, event_set, pstop_pc,
                   pstop_task, npstops, waiter_event, started_since,
                   channelVars, clientVars>>

\* The shared queue while it is monitored changes as the program changes
\* it: send() puts one command on it, and a step of the consumer loop takes
\* every command that is queued.

\* send() of a command whose handler returns.
MonitorSend ==
    /\ send("ok")
    /\ UNCHANGED <<clientVars, producerVars>>

\* The first start() of the consumer.
MonitorConsumerStart == nstarts = 0 /\ start

\* A step of a background task whose handler returns without suspending.
MonitorRunTask ==
    /\ RunTask
    /\ \A c \in Cmd : task_state'[c] # "suspended"

\* The first start() of the producer.
MonitorProducerStart == nmonitors = 0 /\ producer_start

\* A producer and a consumer, each started once at any time, while up to
\* MaxSends commands are sent and picked up; the handlers return without
\* suspending.  The sleep of the monitor ends at any time.
MonitorNext ==
    \/ MonitorProducerStart
    \/ QueueMonitor
    \/ MonitorSend
    \/ MonitorConsumerStart
    \/ RunLoop
    \/ MonitorRunTask
    \/ RunDoneCallbacks

MonitorSpec == Init /\ [][MonitorNext]_vars

\* send() of one of the first MaxCmds commands.
MonitorStopSend == nsent < MaxCmds /\ MonitorSend

\* A producer that is started and stopped at any time while up to MaxCmds
\* commands are sent and a consumer, started once, picks them up.
MonitorStopNext ==
    \/ producer_start
    \/ QueueMonitor
    \/ producer_stop
    \/ \E s \in ProducerStopCall : producer_stop_resume(s)
    \/ MonitorStopSend
    \/ MonitorConsumerStart
    \/ RunLoop
    \/ MonitorRunTask
    \/ RunDoneCallbacks

MonitorStopSpec == Init /\ [][MonitorStopNext]_vars

\* A producer that is started and stopped at any time while callers wait
\* in wait_until_ready().
ReadyNext ==
    \/ producer_start
    \/ QueueMonitor
    \/ producer_stop
    \/ \E s \in ProducerStopCall : producer_stop_resume(s)
    \/ \E w \in Waiter : wait_until_ready(w)
    \/ \E w \in Waiter : wait_until_ready_resume(w)

ReadySpec == Init /\ [][ReadyNext]_vars

----------------------------------------------------------------------------
\* Properties

\* The handler of c has terminated (returned, raised or was cancelled).
Terminated(c) == outcome[c] # "none"

\* stop() call s returns in this step (which may be the step of the call).
StopReturns(s) == stop_pc[s] # "returned" /\ stop_pc'[s] = "returned"

\* A stop() call has cancelled the loop in _consumer_task and awaits it: no
\* start() has been called since.
StopAwaitsConsumerTask ==
    \E s \in StopCall :
        /\ stop_pc[s] = "await_loop"
        /\ \E i \in DOMAIN awaiting :
                awaiting[i] = <<s, LoopHandle(consumer_task)>>

\* Number of entries of the error queue that belong to c.
ErrorEntries(c) == Cardinality({i \in DOMAIN error_queue : error_queue[i] = c})

\* C1: the completion signal of a command is set at most once, and only
\* when the command's handler has fully terminated: never while the command
\* is queued, its task not yet started, or its handler still executing.
C1_SignalOnlyAfterHandlerEnded ==
    \A c \in Cmd :
        /\ set_calls[c] <= 1
        /\ on_done[c] => (Terminated(c) /\ task_state[c] = "closed")
        /\ set_calls[c] > 0 => on_done[c]

C1_Witness ==
    \E c \in Cmd : on_done[c] /\ set_calls[c] = 1 /\ handler_started[c]
                   /\ outcome[c] = "ok"

\* C2: every command that was sent gets its completion signal set.  In the
\* form a finite run decides: once the handler of a command has terminated
\* and the done callbacks of its task have run, the signal is set (nothing
\* sets it later).
C2_SignalSetOnceHandled ==
    \A c \in Cmd : task_state[c] = "closed" => on_done[c]

\* C3: once stop() has begun (and until the consumer is started again) no
\* command leaves the queue and no handler task is created for it.
C3_NoPickupAfterStopBegan ==
    [][(StopAwaitsConsumerTask \/ consumer_task = 0)
        => \A c \in Cmd : task_state[c] \in {"unsent", "queued"}
                          => task_state'[c] \in {"unsent", "queued"}]_vars

\* C4 as stated: when stop() has returned, the tasks it cancelled are
\* exactly the tasks that were in _running_commands when a drain window
\* elapsed.
C4_CancelledIffInSetAtWindowEnd ==
    ~StopRunning => \A c \in Cmd : must_cancel[c] <=> c \in snap

\* C4 as amended: stop() cancels a task only after the whole drain window
\* and only if the task was in _running_commands when the window elapsed;
\* when stop() has returned every task that was in the set at that moment
\* has been cancelled or has terminated on its own; a handler that
\* terminated on its own was never cancelled.
C4_CancelOnlyAfterWindow ==
    /\ \A s \in StopCall : stop_pc[s] = "await_task" => polls[s] = DrainPolls
    /\ \A c \in Cmd :
        /\ must_cancel[c] => c \in snap
        /\ (~StopRunning /\ c \in snap)
              => (must_cancel[c] \/ outcome[c] \in {"ok", "err"})
        /\ outcome[c] \in {"ok", "err"} => ~must_cancel[c]
        /\ (must_cancel[c] /\ Terminated(c)) => outcome[c] = "cancelled"

C4_Witness ==
    /\ ~StopRunning
    /\ \E c, d \in Cmd :
        /\ c \in snap /\ must_cancel[c] /\ outcome[c] = "cancelled"
        /\ d \in snap /\ ~must_cancel[d] /\ outcome[d] \in {"ok", "err"}

\* C5: in the state in which stop() has just returned _running_commands is
\* empty and no background task of the consumer is still running.
C5_NothingRunsAfterStop ==
    [][(\E s \in StopCall : StopReturns(s))
        => /\ running_commands' = {}
           /\ \A c \in Cmd : task_state'[c] \notin {"created", "suspended"}]_vars

\* C6: when the handler of a command raised, the completion signal of the
\* command is set and the queue item is marked done once the task's done
\* callbacks have run.
C6_SignalSetAfterFailure ==
    \A c \in Cmd :
        (task_state[c] = "closed" /\ outcome[c] = "err")
            => (on_done[c] /\ c \notin callback_errors)

\* C7: a handler that terminated with an exception has exactly one entry on
\* the error queue once its task's done callbacks have run, and no entry
\* before; a handler that returned normally has none.
C7_OneErrorEntryPerFailure ==
    \A c \in Cmd :
        /\ (task_state[c] = "closed" /\ outcome[c] = "err") => ErrorEntries(c) = 1
        /\ outcome[c] = "ok" => ErrorEntries(c) = 0
        /\ task_state[c] # "closed" => ErrorEntries(c) = 0

C7_Witness ==
    \E c, d \in Cmd :
        /\ task_state[c] = "closed" /\ outcome[c] = "err" /\ ErrorEntries(c) = 1
        /\ task_state[d] = "closed" /\ outcome[d] = "ok" /\ ErrorEntries(d) = 0

\* C8: commands are picked up and their handlers started in send order: the
\* handler of a later command has not started unless the handler of every
\* earlier command has.
C8_HandlersStartInSendOrder ==
    \A a, b \in Cmd : (a < b /\ handler_started[b]) => handler_started[a]

\* C10: when stop() returns, the commands that were in the queue when it
\* began are still at the head of the queue in the same order, their
\* handlers have not run and their completion signals are unset.
C10_QueuedCommandsUntouchedByStop ==
    [][\A s \in StopCall : StopReturns(s)
        => LET q == queue_at_stop'[s] IN
           /\ Len(queue') >= Len(q)
           /\ SubSeq(queue', 1, Len(q)) = q
           /\ \A i \in DOMAIN q :
                /\ task_state'[q[i]] = "queued"
                /\ ~handler_started'[q[i]]
                /\ ~on_done'[q[i]]]_vars

\* C9: the consumer loop does not wait for handlers.  While the handler of
\* an earlier command a is suspended and never returns, a later command b
\* that is queued at a started consumer is picked up and handled, and its
\* completion signal gets set with a still suspended and in
\* _running_commands.
C9_LoopDoesNotWaitForHandler ==
    \A a, b \in Cmd :
        (/\ a < b /\ nstarts > 0
         /\ kind[a] = "hang" /\ task_state[a] = "suspended"
         /\ kind[b] # "hang" /\ task_state[b] = "queued")
        ~> (/\ on_done[b]
            /\ task_state[a] = "suspended" /\ a \in running_commands)

C9_Witness ==
    \E a, b \in Cmd :
        /\ a < b /\ kind[a] = "hang" /\ task_state[a] = "suspended"
        /\ a \in running_commands
        /\ on_done[b] /\ handler_started[b]


\* What the client log holds of fire_event() call j: its hooks and the
\* sending of its command, in the order they happened.
FireLog(j) ==
    SelectSeq(client_log,
              LAMBDA e : \/ e = <<"before_event_sent", j>>
                         \/ e = <<"after_event_sent", j>>
                         \/ e = <<"send", fire_cmd[j]>>)

\* The commands that are the SendEvent command of fire_event() call j.
SendEventCommands(j) == {c \in Cmd : command[c] = <<"SendEvent", j>>}

\* C12: a fire_event() call for an event that resolves (the API is
\* registered, the name is accepted and the API has the event), whose
\* keyword argument names are not exactly the declared parameter names
\* (missing, extra or both), gets no further than InvalidEventArguments:
\* once lazy_load_now() is over the call has raised it; it sends no
\* SendEvent command and runs neither the before_event_sent nor the
\* after_event_sent hook.
C12_MismatchRaisesAndSendsNothing ==
    \A j \in FireCall :
        (/\ fire_pc[j] \notin {"unused", "UnknownApi", "InvalidName",
                            "EventNotFound"}
         /\ fire_kwargs[j] # fire_params[j])
        => /\ fire_pc[j] \in {"lazy_load_now", "InvalidEventArguments"}
           /\ fire_cmd[j] = 0
           /\ SendEventCommands(j) = {}
           /\ FireLog(j) = <<>>

C12_Witness ==
    \E j \in FireCall :
        /\ fire_pc[j] = "InvalidEventArguments"
        /\ fire_params[j] # {}
        /\ fire_params[j] \subseteq fire_kwargs[j]
        /\ fire_kwargs[j] # fire_params[j]
        /\ nsent = 0 /\ client_log = <<>>

\* C13: a fire_event() call that passes validation sends exactly one
\* SendEvent command; the before_event_sent hook runs, then the command is
\* sent, then the call waits, and the after_event_sent hook runs and the
\* call returns only when the completion event of the command is set, which
\* is after the handler of the command has terminated.  A call that does
\* not pass validation runs no hook and sends nothing.
C13_FireOrder ==
    \A j \in FireCall :
        /\ fire_pc[j] \in {"before_event_sent", "waiting", "after_event_sent",
                           "returned"}
            => fire_kwargs[j] = fire_params[j]
        /\ fire_pc[j] \in {"waiting", "after_event_sent", "returned"}
            => SendEventCommands(j) = {fire_cmd[j]}
        /\ fire_pc[j] = "before_event_sent"
            => /\ FireLog(j) = << <<"before_event_sent", j>> >>
               /\ SendEventCommands(j) = {}
        /\ fire_pc[j] = "waiting"
            => FireLog(j) = << <<"before_event_sent", j>>,
                               <<"send", fire_cmd[j]>> >>
        /\ fire_pc[j] \in {"after_event_sent", "returned"}
            => /\ FireLog(j) = << <<"before_event_sent", j>>,
                                  <<"send", fire_cmd[j]>>,
                                  <<"after_event_sent", j>> >>
               /\ on_done[fire_cmd[j]]
               /\ Terminated(fire_cmd[j])
               /\ task_state[fire_cmd[j]] = "closed"
        /\ fire_pc[j] \notin {"before_event_sent", "waiting",
                              "after_event_sent", "returned"}
            => /\ FireLog(j) = <<>>
               /\ SendEventCommands(j) = {}

C13_Witness ==
    \E j \in FireCall :
        /\ fire_pc[j] = "returned"
        /\ fire_params[j] = {"order_id"}
        /\ handler_started[fire_cmd[j]]
        /\ outcome[fire_cmd[j]] = "ok"
        /\ Len(client_log) = 3


\* C11: of two listen() calls with the same listener name at most one
\* returns normally, also when the second begins while the first awaits its
\* ConsumeEvents command.
C11_SameNameRegistersOnce ==
    \A i, h \in ListenCall :
        (i # h /\ listen_name[i] = listen_name[h])
            => ~(listen_pc[i] = "returned" /\ listen_pc[h] = "returned")

\* C14: a ReceiveEvent command for a listener name that is not registered
\* is handled without raising an error.
C14_UnknownListenerDropped ==
    \A n \in DOMAIN receive_log :
        ~receive_log[n].registered => receive_log[n].result = "ok"

\* C15: a ReceiveEvent command for a registered listener name is handled
\* without error and its message is on the intake queue of a listen() call
\* that registered the name.
C15_MessageReachesIntakeQueue ==
    \A n \in DOMAIN receive_log :
        receive_log[n].registered
            => /\ receive_log[n].result = "ok"
               /\ \E i \in ListenCall :
                    /\ listen_pc[i] = "returned"
                    /\ listen_name[i] = receive_log[n].listener_name
                    /\ receive_log[n].message \in Range(intake[i])

\* C16: a message on the intake queue of a registered listener is
\* eventually taken from the queue by the listener's consumption loop.
C16_IntakeMessagesProcessed ==
    \A i \in ListenCall : \A message \in Msg :
        (listen_pc[i] = "returned" /\ message \in Range(intake[i]))
            ~> (message \notin Range(intake[i]))

\* C17: once the user callable of a listener has raised, the listener's
\* consumption loop goes on: the messages that are on its intake queue then
\* or later are eventually taken from the queue.
C17_LoopSurvivesFailure ==
    \A i \in ListenCall :
        ((\E m \in Msg : msg_pc[m] = "raised" /\ msg_listener[m] = i)
            /\ intake[i] # <<>>)
        ~> (intake[i] = <<>>)


\* The latest sample: previous_size (<<>> is None), the sampled size and
\* the message logged for it.
SamplePrevious == last_sample[2]
SampleCurrent == last_sample[3]
SampleMessage == last_sample[4]

\* C18 as stated: at a sample a size warning is logged exactly when the
\* sampled length is at or above the threshold and differs from the
\* previous sample.
C18_WarningIffChangedAboveThreshold ==
    last_sample # <<>>
        => (SampleMessage = "size_warning"
                <=> (/\ SampleCurrent >= size_warning
                     /\ SamplePrevious # <<SampleCurrent>>))

\* C18 as amended: a size warning is logged exactly when the sampled length
\* is at or above the threshold and it is the first sample or the length
\* has grown since the previous sample; when the sampled length is at or
\* above the threshold but smaller than the previous sample, the shrunk-back
\* notice is logged instead of the size warning; when the length equals the
\* previous sample nothing is logged.
C18_WarningIffGrownAboveThreshold ==
    last_sample # <<>>
        => /\ SampleMessage = "size_warning"
                <=> (/\ SampleCurrent >= size_warning
                     /\ (SamplePrevious = <<>>
                            \/ SampleCurrent > SamplePrevious[1]))
           /\ (/\ SampleCurrent >= size_warning
               /\ SamplePrevious # <<>>
               /\ SampleCurrent < SamplePrevious[1])
                => SampleMessage = "shrunk"
           /\ SamplePrevious = <<SampleCurrent>> => SampleMessage = "none"

\* A sample at or above the threshold and smaller than the one before, for
\* which the shrunk-back notice is logged and no size warning.
C18_Witness ==
    /\ last_sample # <<>>
    /\ SamplePrevious # <<>>
    /\ SampleCurrent >= size_warning
    /\ SampleCurrent < SamplePrevious[1]
    /\ SampleMessage = "shrunk"

\* C19 as stated: at a sample a shrunk-back notice is logged exactly when
\* the sampled length is below the threshold and the previous sample was at
\* or above it.
C19_NoticeIffDroppedBelowThreshold ==
    last_sample # <<>>
        => (SampleMessage \in {"shrunk", "shrunk_ok"}
                <=> (/\ SamplePrevious # <<>>
                     /\ SamplePrevious[1] >= size_warning
                     /\ SampleCurrent < size_warning))

\* C19 as amended: a shrunk-back notice is logged exactly when the previous
\* sample was at or above the threshold and the sampled length is smaller
\* than it; the notice says that the queue is at an OK size again exactly
\* when the sampled length is below the threshold.
C19_NoticeIffShrunkFromAboveThreshold ==
    last_sample # <<>>
        => /\ SampleMessage \in {"shrunk", "shrunk_ok"}
                <=> (/\ SamplePrevious # <<>>
                     /\ SamplePrevious[1] >= size_warning
                     /\ SampleCurrent < SamplePrevious[1])
           /\ SampleMessage = "shrunk_ok"
                <=> (/\ SamplePrevious # <<>>
                     /\ SamplePrevious[1] >= size_warning
                     /\ SampleCurrent < size_warning)

\* A sample that stays at the threshold after a sample above it, for which
\* the shrunk-back notice is logged without the statement that the queue is
\* at an OK size again.
C19_Witness ==
    /\ last_sample # <<>>
    /\ SamplePrevious # <<>>
    /\ SamplePrevious[1] > size_warning
    /\ SampleCurrent = size_warning
    /\ SampleMessage \in {"shrunk", "shrunk_ok"}
    /\ SampleMessage # "shrunk_ok"

\* C20: a caller suspended in wait_until_ready() while a monitor loop has
\* started since it began to wait has been woken: the Event it waits on is
\* set.
C20_WaiterWokenOnceMonitorStarted ==
    \A w \in Waiter :
        (waiter_pc[w] = "suspended" /\ started_since[w])
            => event_set[waiter_event[w]]


\* A monitor task takes a sample in this step: its first, or one that finds
\* another queue length than the sample before.
MonitorSamples ==
    \E g \in Monitor :
        /\ monitor_state'[g] = "sleeping"
        /\ (monitor_state[g] = "new" \/ previous_size'[g] # previous_size[g])

\* InternalProducer.stop() is called in this step.
ProducerStopCalled == npstops' = npstops + 1

\* A stop() of the producer has returned and none is suspended.
ProducerStopped ==
    /\ \E s \in ProducerStopCall : pstop_pc[s] = "returned"
    /\ \A s \in ProducerStopCall : pstop_pc[s] # "await_monitor"

\* C21: once a stop() has returned, and until the next start(), no monitor
\* samples the queue; a stop() called while no monitor task is held (after
\* an earlier stop(), or before any start()) returns at once and changes
\* nothing of the producer; no stop() changes the shared queue.
C21_StopEndsSamplingAndIsIdempotent ==
    [][/\ (ProducerStopped /\ queue_monitor_task = 0) => ~MonitorSamples
       /\ (ProducerStopCalled /\ queue_monitor_task = 0)
            => /\ pstop_pc'[npstops + 1] = "returned"
               /\ UNCHANGED <<queue_monitor_task, monitor_state,
                              monitor_cancel, previous_size, monitor_ready,
                              event_set>>
       /\ (ProducerStopCalled \/ pstop_pc' # pstop_pc) => queue' = queue]_vars


\* A ConsumeEvents command for listener_name has been put on the shared
\* queue by a listen() call.
ConsumeEventsEnqueued(listener_name) ==
    \E i \in ListenCall :
        listen_cmd[i] # 0 /\ listen_name[i] = listener_name

\* C22: listen() registers the listener name before it dispatches the
\* ConsumeEvents command: a ReceiveEvent command handled when the
\* ConsumeEvents command for its listener name has been put on the shared
\* queue finds the name in _event_listeners.
C22_RegisteredBeforeDispatch ==
    [][Len(receive_log') > Len(receive_log)
        => LET r == receive_log'[Len(receive_log')]
           IN  ConsumeEventsEnqueued(r.listener_name) => r.registered]_vars


\* The handler executions that have begun and not yet terminated: the
\* background tasks that were created and whose done callbacks have not run.
InFlight == {c \in Cmd : task_state[c] \in {"created", "suspended", "done"}}

\* The task of c leaves _running_commands in this step.
RemovedFromRunning(c) == c \in running_commands /\ c \notin running_commands'

\* The done callbacks of the terminated task of c run in this step.
TaskCloses(c) == task_state[c] = "done" /\ task_state'[c] = "closed"

\* C23: whatever start(), send() and stop() calls are made, _running_commands
\* holds exactly the tasks that are in flight; a task leaves the set only
\* when its done callbacks run, it leaves it then, and in the same step the
\* queue item is marked done and the completion signal is set.
C23_RunningTaskSet ==
    [][/\ running_commands' = InFlight'
       /\ \A c \in Cmd :
            /\ RemovedFromRunning(c)
                => /\ TaskCloses(c)
                   /\ unfinished_tasks' = unfinished_tasks - 1
                   /\ on_done'[c] /\ set_calls'[c] = set_calls[c] + 1
            /\ TaskCloses(c) => RemovedFromRunning(c)]_vars


\* The command c has been taken from the shared queue.
PickedUp(c) == task_state[c] \notin {"unsent", "queued"}

\* The command c waits in the shared queue and a consumer loop has been
\* started that has yet to take its first step: c was queued while the
\* consumer was stopped, or before the new loop first looked at the queue.
QueuedAtStart(c) ==
    /\ task_state[c] = "queued"
    /\ consumer_task # 0
    /\ loop_state[consumer_task] = "new"
    /\ ~loop_cancel[consumer_task]

\* The consumer has been stopped again with c still in the queue.
StoppedBeforePickup(c) ==
    /\ task_state[c] = "queued"
    /\ (consumer_task = 0 \/ loop_cancel[consumer_task])

\* C24: the commands a newly started consumer finds in the shared queue
\* (left there by stop(), or sent while no consumer was running) are taken
\* from it in the order they were sent, and unless the consumer is stopped
\* again before it picks a command up, the command's handler runs and its
\* completion signal is eventually set.
C24_QueuedCommandsHandledAfterRestart ==
    /\ [](\A a, b \in Cmd : (a < b /\ PickedUp(b)) => PickedUp(a))
    /\ \A c \in Cmd :
        (QueuedAtStart(c) /\ kind[c] # "hang")
            ~> (on_done[c] \/ StoppedBeforePickup(c))

=============================================================================
